---------------------------- MODULE Spec2Model ----------------------------
(***************************************************************************)
(* End-to-end encrypted two-party chat over an untrusted relay.            *)
(*                                                                         *)
(*   src/src/client/index.js   the client (handshake, queue, seal/open)    *)
(*   src/unnamed/part_000      the relay (lines 1-66) and lib/crypto       *)
(*                             (lines 68-142)                              *)
(*                                                                         *)
(* Byte strings (Buffers) are sequences of symbolic blocks, so that        *)
(* Buffer.concat is sequence concatenation.  Cryptographic primitives are  *)
(* free constructors over these blocks: two outputs are equal exactly when *)
(* the primitive and all of its inputs are equal.                          *)
(***************************************************************************)
EXTENDS Integers, Sequences, FiniteSets, TLC

(***************************************************************************)
(* Bounds of the model.                                                    *)
(***************************************************************************)
\* user lines that lead to a transmission, summed over both clients
MaxSend == 2
\* envelopes the untrusted network may hand to the clients out of thin air
MaxInject == 1
\* distinct IV values crypto.randomBytes may draw
NumIVs == 1
\* joins one connection of the relay makes, where the relay is taken on its own
MaxJoins == 1
\* frames the relay has sent and no connection has read yet, there
MaxQueued == 1

(***************************************************************************)
(* Identities, rooms, curves.                                              *)
(***************************************************************************)
Clients == {"alice", "bob"}
\* "carol" is a third identity of the room; she runs no client of the model,
\* envelopes in her name come from the network
Ids == Clients \cup {"carol"}
Room == "r1"
Curves == <<"x25519", "prime256v1", "secp256k1">>

\* process.env.PEER: each client is configured with the other as its peer
peer(me) == IF me = "alice" THEN "bob" ELSE "alice"

\* the order Array.prototype.sort() puts the identities in (code units)
IdRank(id) == CASE id = "alice" -> 1 [] id = "bob" -> 2 [] id = "carol" -> 3 [] OTHER -> 0

\* the pair as given, left unsorted
UnsortedIds(a, b) == <<a, b>>

\* [me, from].sort()
SortIds(a, b) == IF IdRank(a) <= IdRank(b) THEN <<a, b>> ELSE <<b, a>>

(***************************************************************************)
(* Blocks of bytes.  Every block is a record of the same shape:            *)
(*   kind  what produced it          key   the key it was produced under   *)
(*   a,b,c byte strings it covers    n     a number it carries             *)
(*   s     strings it carries        x     1 when bits of it were flipped  *)
(***************************************************************************)
NoKey == [ikm |-> {}, salt |-> "", info |-> <<>>, idx |-> 0]

Block(kind, key, a, b, c, n, s) ==
    [kind |-> kind, key |-> key, a |-> a, b |-> b, c |-> c, n |-> n, s |-> s, x |-> 0]

\* a block with some of its bits flipped in transit
Flip(blk) == [blk EXCEPT !.x = 1 - @]

(***************************************************************************)
(* lib/crypto                                                              *)
(***************************************************************************)
\* pickEcdhCurve: the first curve of the preference list the build supports
pickEcdhCurve(available) ==
    IF Curves[1] \in available THEN Curves[1]
    ELSE IF Curves[2] \in available THEN Curves[2]
    ELSE IF Curves[3] \in available THEN Curves[3]
    ELSE "none"

\* genKeyPairECDH(curve).publicKey: the public key of `id` on `curve`
publicKey(id, curve) == << Block("pub", NoKey, <<>>, <<>>, <<>>, 0, <<id, curve>>) >>

\* does the Buffer decode to a point of `curve`
ValidPub(buf, curve) ==
    /\ Len(buf) = 1
    /\ buf[1].kind = "pub"
    /\ buf[1].x = 0
    /\ buf[1].s[2] = curve

\* computeSharedSecret(ecdh, otherPubKey): ECDH is symmetric in the two key
\* pairs; only called on a valid point (an invalid one makes it throw)
computeSharedSecret(me, otherPub) == {me, otherPub[1].s[1]}

\* crypto.createHash("sha256").update("chat-e2ee-salt").digest()
Salt == "sha256:chat-e2ee-salt"

\* hkdfSha256(ikm, salt, info, len): len bytes in blocks of 32
hkdfSha256(ikm, salt, info, len) ==
    [j \in 1..(len \div 32) |-> [ikm |-> ikm, salt |-> salt, info |-> info, idx |-> j]]

\* deriveSessionKeys(sharedSecret, context)
deriveSessionKeys(sharedSecret, context) ==
    LET okm == hkdfSha256(sharedSecret, Salt, context, 64)
    IN  [kEnc |-> okm[1], kMac |-> okm[2]]

\* cipher.update(plaintext, "utf8"): the UTF-8 encoding of one unit of text; an
\* unpaired surrogate is encoded as U+FFFD.  readline hands the prompt loop
\* well-formed text only.
utf8(ch) == IF ch = "U+D800" THEN "U+FFFD" ELSE ch

\* the authentication tag AES-256-GCM computes over (iv, aad, ct) under kEnc
GcmTag(kEnc, iv, ct, aad) == << Block("tag", kEnc, iv, aad, ct, 0, <<>>) >>

\* encryptAesGcm(kEnc, plaintext, aad) with the iv randomBytes(12) drew:
\* one ciphertext block per unit of plaintext (counter mode keeps the length)
encryptAesGcm(kEnc, plaintext, aad, ivn) ==
    LET iv == << Block("iv", NoKey, <<>>, <<>>, <<>>, ivn, <<>>) >>
        ct == [i \in 1..Len(plaintext) |->
                  Block("ct", kEnc, iv, <<>>, <<>>, i, <<utf8(plaintext[i])>>)]
    IN  [iv |-> iv, ct |-> ct, tag |-> GcmTag(kEnc, iv, ct, aad)]

\* a decryption that loses the last unit of the plaintext
decryptAesGcmShort(kEnc, iv, ct, tag, aad) ==
    [ok |-> TRUE, text |-> [i \in 1..(Len(ct) - 1) |-> ct[i].s[1]]]

\* decryptAesGcm(kEnc, iv, ct, tag, aad): createDecipheriv rejects an empty
\* iv, setAuthTag a tag of a wrong length, final() a tag that does not verify
decryptAesGcm(kEnc, iv, ct, tag, aad) ==
    IF Len(iv) = 0 \/ Len(tag) # 1 \/ tag # GcmTag(kEnc, iv, ct, aad)
    THEN [ok |-> FALSE, text |-> <<>>]
    ELSE [ok |-> TRUE, text |-> [i \in 1..Len(ct) |-> ct[i].s[1]]]

\* hmacSha256(kMac, data): one 32-byte block
hmacSha256(kMac, data) == << Block("hmac", kMac, data, <<>>, <<>>, 0, <<>>) >>

\* timingSafeEq(a, b)
timingSafeEq(a, b) == IF Len(a) # Len(b) THEN FALSE ELSE a = b

\* b64(buf) / unb64(s): base64 text of a Buffer and back
b64(buf) == [b64 |-> buf]
unb64(str) == str.b64


(***************************************************************************)
(* Envelopes: the JSON objects on the wire.  A field that is absent from   *)
(* the object is "" (from, to, type) or is left out of `has` (payload).    *)
(***************************************************************************)
NoBytes == b64(<<>>)

Envelope(type, room, from, to) ==
    [type |-> type, room |-> room, from |-> from, to |-> to, has |-> {},
     curve |-> "", pub |-> NoBytes, counter |-> 0,
     iv |-> NoBytes, ct |-> NoBytes, tag |-> NoBytes, hmac |-> NoBytes]

\* JSON.stringify(obj) and the text of a frame that is not JSON
JSONstringify(obj) == [json |-> TRUE, msg |-> obj]
NotJson == [json |-> FALSE, msg |-> Envelope("", "", "", "")]

\* an AAD that leaves the counter out
buildAadNoCounter(room, from, to, counter) ==
    << Block("aad", NoKey, <<>>, <<>>, <<>>, 0, <<room, from, to>>) >>

\* buildAad(room, from, to, counter): the JSON text of the four fields, one
\* block; a counter that is undefined is left out of the text (n = -1)
buildAad(room, from, to, counter) ==
    << Block("aad", NoKey, <<>>, <<>>, <<>>, counter, <<room, from, to>>) >>

\* the counter the receiver reads from payload
CounterOf(msg) == IF "counter" \in msg.has THEN msg.counter ELSE -1

\* the envelope sendHandshake(to) puts on the wire
HandshakeEnvelope(me, to, curve) ==
    [Envelope("handshake", Room, me, to) EXCEPT
        !.has = {"curve", "pub"}, !.curve = curve, !.pub = b64(publicKey(me, curve))]

\* the envelope promptLoop puts on the wire for `line`
MsgEnvelope(me, sess, counter, line, ivn) ==
    LET aad == buildAad(Room, me, peer(me), counter)
        enc == encryptAesGcm(sess.kEnc, line, aad, ivn)
        macData == aad \o enc.iv \o enc.ct \o enc.tag
        mac == hmacSha256(sess.kMac, macData)
    IN  [Envelope("msg", Room, me, peer(me)) EXCEPT
            !.has = {"counter", "iv", "ct", "tag", "hmac"},
            !.counter = counter, !.iv = b64(enc.iv), !.ct = b64(enc.ct),
            !.tag = b64(enc.tag), !.hmac = b64(mac)]

\* a handler that opens the envelope before it looks at the HMAC
handleEncryptedMessageDecryptFirst(me, sess, msg) ==
    IF ~({"iv", "ct", "tag", "hmac"} \subseteq msg.has)
    THEN [env |-> msg, outcome |-> "threw", text |-> <<>>, decrypted |-> FALSE]
    ELSE LET ivB == unb64(msg.iv)
             ctB == unb64(msg.ct)
             tagB == unb64(msg.tag)
             hmacB == unb64(msg.hmac)
             aad == buildAad(Room, msg.from, me, CounterOf(msg))
             macData == aad \o ivB \o ctB \o tagB
             macExpected == hmacSha256(sess.kMac, macData)
         IN  IF ~timingSafeEq(macExpected, hmacB)
             THEN [env |-> msg, outcome |-> "hmac_fail", text |-> <<>>, decrypted |-> TRUE]
             ELSE LET dec == decryptAesGcm(sess.kEnc, ivB, ctB, tagB, aad)
                  IN  IF dec.ok
                      THEN [env |-> msg, outcome |-> "delivered", text |-> dec.text,
                            decrypted |-> TRUE]
                      ELSE [env |-> msg, outcome |-> "decrypt_fail", text |-> <<>>,
                            decrypted |-> TRUE]

(***************************************************************************)
(* handleEncryptedMessage(msg) once a session exists: what it does with    *)
(* one envelope.                                                           *)
(*   "threw"         unb64(undefined) throws a TypeError, nothing catches  *)
(*   "hmac_fail"     the HMAC does not verify; decryption is not attempted *)
(*   "decrypt_fail"  decryptAesGcm throws, caught by the try               *)
(*   "delivered"     the plaintext is printed and recvCounter incremented  *)
(***************************************************************************)
handleEncryptedMessage(me, sess, msg) ==
    IF ~({"iv", "ct", "tag", "hmac"} \subseteq msg.has)
    THEN [env |-> msg, outcome |-> "threw", text |-> <<>>, decrypted |-> FALSE]
    ELSE LET ivB == unb64(msg.iv)
             ctB == unb64(msg.ct)
             tagB == unb64(msg.tag)
             hmacB == unb64(msg.hmac)
             aad == buildAad(Room, msg.from, me, CounterOf(msg))
             macData == aad \o ivB \o ctB \o tagB
             macExpected == hmacSha256(sess.kMac, macData)
         IN  IF ~timingSafeEq(macExpected, hmacB)
             THEN [env |-> msg, outcome |-> "hmac_fail", text |-> <<>>, decrypted |-> FALSE]
             ELSE LET dec == decryptAesGcm(sess.kEnc, ivB, ctB, tagB, aad)
                  IN  IF dec.ok
                      THEN [env |-> msg, outcome |-> "delivered", text |-> dec.text,
                            decrypted |-> TRUE]
                      ELSE [env |-> msg, outcome |-> "decrypt_fail", text |-> <<>>,
                            decrypted |-> TRUE]

\* pendingMessages.forEach(handleEncryptedMessage): the calls made, in order,
\* up to and including the first one that throws
RECURSIVE DrainResults(_, _, _)
DrainResults(me, sess, queue) ==
    IF queue = <<>> THEN <<>>
    ELSE LET r == handleEncryptedMessage(me, sess, Head(queue))
         IN  IF r.outcome = "threw" THEN <<r>>
             ELSE <<r>> \o DrainResults(me, sess, Tail(queue))

RECURSIVE CountDelivered(_)
CountDelivered(results) ==
    IF results = <<>> THEN 0
    ELSE (IF Head(results).outcome = "delivered" THEN 1 ELSE 0) + CountDelivered(Tail(results))

Threw(results) == \E i \in 1..Len(results) : results[i].outcome = "threw"

\* console.log(`[${from}] ${text}`): the lines the calls print, with the counter
\* of the envelope each came in
RECURSIVE Printed(_)
Printed(results) ==
    IF results = <<>> THEN <<>>
    ELSE (IF Head(results).outcome = "delivered"
          THEN <<[from |-> Head(results).env.from, counter |-> CounterOf(Head(results).env),
                  text |-> Head(results).text]>>
          ELSE <<>>) \o Printed(Tail(results))

(***************************************************************************)
(* State.                                                                  *)
(***************************************************************************)
VARIABLES
    curve,                  \* client: const curve = pickEcdhCurve()
    phase,                  \* client: "init" | "open" (socket open) | "exited" | "crashed"
    joined,                 \* client: let joined
    handshakeSent,          \* client: let handshakeSent
    session,                \* client: let session; <<>> is null
    sendCounter,            \* client: let sendCounter
    recvCounter,            \* client: let recvCounter
    peerHandshakeReceived,  \* client: let peerHandshakeReceived
    pendingMessages,        \* client: let pendingMessages
    promptRunning,          \* client: promptLoop.running
    timers,                 \* client: setTimeout callbacks armed and not yet run
    toClient,               \* frames the relay has sent, not yet handled by the client
    rooms,                  \* relay: roomId -> (peerId -> connection)
    sockOpen,               \* relay: ws.readyState === ws.OPEN of each connection
    delivered,              \* history: [from, counter, text] of each plaintext printed
    sent,                   \* history: [env, text] of every msg a client transmitted
    seen,                   \* history: the branches each client's handler has ended in
    firstSession,           \* history: the session each client derived first
    dropped,                \* history: <<from, type>> of frames the relay had no target for
    joinHist,               \* history: who joined as whom, and who joined as whom last
    requested,              \* history: request_handshake envelopes each client sent
    injected                \* history: how many envelopes the network made up

clientVars == <<curve, phase, joined, handshakeSent, session, sendCounter, recvCounter,
                peerHandshakeReceived, pendingMessages, promptRunning, timers>>
netVars == <<toClient, rooms, sockOpen>>
histVars == <<delivered, sent, seen, firstSession, dropped, joinHist, requested, injected>>
vars == <<clientVars, netVars, histVars>>

NoSession == <<>>
HasSession(c) == session[c] # NoSession
SessionOf(c) == session[c][1]

\* the history of joins: `by` holds <<ws, room, from>> for every join handled,
\* `last` holds <<room, from, ws>> for the join handled last for (room, from)
NoJoins == [by |-> {}, last |-> {}]
Joined(h, room, from, ws) ==
    [by |-> h.by \cup {<<ws, room, from>>},
     last |-> {t \in h.last : ~(t[1] = room /\ t[2] = from)} \cup {<<room, from, ws>>}]

\* crypto.getCurves() of the Node build both clients run (OpenSSL lists no
\* x25519 among its named curves); a curve other than theirs is declared only
\* by the network
Build == {"prime256v1", "secp256k1"}

Init ==
    /\ curve = [c \in Clients |-> pickEcdhCurve(Build)]
    /\ phase = [c \in Clients |-> "init"]
    /\ joined = [c \in Clients |-> FALSE]
    /\ handshakeSent = [c \in Clients |-> FALSE]
    /\ session = [c \in Clients |-> NoSession]
    /\ sendCounter = [c \in Clients |-> 0]
    /\ recvCounter = [c \in Clients |-> 0]
    /\ peerHandshakeReceived = [c \in Clients |-> FALSE]
    /\ pendingMessages = [c \in Clients |-> <<>>]
    /\ promptRunning = [c \in Clients |-> FALSE]
    /\ timers = [c \in Clients |-> 0]
    /\ toClient = [c \in Clients |-> <<>>]
    /\ rooms = <<>>
    /\ sockOpen = [c \in Clients |-> FALSE]
    /\ delivered = [c \in Clients |-> <<>>]
    /\ sent = [c \in Clients |-> <<>>]
    /\ seen = [c \in Clients |-> {}]
    /\ firstSession = [c \in Clients |-> NoSession]
    /\ dropped = {}
    /\ joinHist = NoJoins
    /\ requested = [c \in Clients |-> 0]
    /\ injected = 0

(***************************************************************************)
(* The relay (src/unnamed/part_000, lines 1-66).                           *)
(***************************************************************************)
\* safeSend(ws, obj) on net = [rooms, toClient, sockOpen, dropped, joinHist]: the relay's
\* state and the frames under way to the clients
safeSend(net, ws, obj) ==
    IF net.sockOpen[ws]
    THEN [net EXCEPT !.toClient[ws] = Append(@, JSONstringify(obj))]
    ELSE net

\* { type, room, from, to, payload }: the envelope the relay sends on
Forwarded(msg) == msg

\* a registration that does not replace the one an identity already has
RegisterIfAbsent(rs, room, from, ws) ==
    IF room \in DOMAIN rs /\ from \in DOMAIN rs[room] THEN rs
    ELSE IF room \in DOMAIN rs
    THEN [rs EXCEPT ![room] = [id \in DOMAIN @ \cup {from} |-> IF id = from THEN ws ELSE @[id]]]
    ELSE rs @@ (room :> (from :> ws))

\* rooms.get(room).set(from, ws), after rooms.set(room, new Map()) for a new room
Register(rs, room, from, ws) ==
    IF room \in DOMAIN rs
    THEN [rs EXCEPT ![room] = [id \in DOMAIN @ \cup {from} |-> IF id = from THEN ws ELSE @[id]]]
    ELSE rs @@ (room :> (from :> ws))

\* wss ws.on("message") for the frame `raw` of connection `ws`
RelayOnMessage(net, ws, raw) ==
    LET msg == raw.msg
    IN  IF ~raw.json \/ msg.type = "" \/ msg.room = "" \/ msg.from = "" THEN net
        ELSE IF msg.type = "join"
        THEN safeSend([net EXCEPT !.rooms = Register(@, msg.room, msg.from, ws),
                                  !.joinHist = Joined(@, msg.room, msg.from, ws)],
                      ws, Envelope("joined", msg.room, msg.from, ""))
        ELSE IF msg.room \notin DOMAIN net.rooms \/ msg.to = "" THEN net
        ELSE IF msg.to \notin DOMAIN net.rooms[msg.room]
        THEN safeSend([net EXCEPT !.dropped = @ \cup {<<msg.from, msg.type>>}],
                      ws, Envelope("error", "", "", ""))
        ELSE safeSend(net, net.rooms[msg.room][msg.to], Forwarded(msg))

\* ws.send(frame) by client c, for each frame of `out` in turn.  The link from
\* a client to the relay is given no latency: the relay handles a frame in the
\* step that sends it.  Links are FIFO and no client handler sends more than
\* one frame, so every run of the real system has, process by process, the
\* history of a run in which each frame is handled as it is sent.
RECURSIVE Transmit(_, _, _)
Transmit(net, c, out) ==
    IF out = <<>> THEN net
    ELSE Transmit(RelayOnMessage(net, c, Head(out)), c, Tail(out))

Net ==
    [rooms |-> rooms, toClient |-> toClient, sockOpen |-> sockOpen, dropped |-> dropped,
     joinHist |-> joinHist]

\* a cleanup that deletes the registrations of `ws` and keeps the rooms
CleanupMembers(rs, ws) ==
    [r \in DOMAIN rs |-> [id \in {i \in DOMAIN rs[r] : rs[r][i] # ws} |-> rs[r][id]]]

\* the rooms left once every registration of `ws` is deleted and every room
\* that became empty is deleted
Cleanup(rs, ws) ==
    LET kept(r) == {id \in DOMAIN rs[r] : rs[r][id] # ws}
        left == {r \in DOMAIN rs : kept(r) # {}}
    IN  [r \in left |-> [id \in kept(r) |-> rs[r][id]]]

\* wss ws.on("close"): the client's process has ended
RelayOnClose(ws) ==
    /\ phase[ws] \in {"exited", "crashed"}
    /\ sockOpen[ws]
    /\ sockOpen' = [sockOpen EXCEPT ![ws] = FALSE]
    /\ rooms' = Cleanup(rooms, ws)
    /\ UNCHANGED <<clientVars, toClient, histVars>>

(***************************************************************************)
(* The relay on its own: connections that join as whom they like, send     *)
(* what they like and close when they like.                                *)
(***************************************************************************)
Conns == {"k1", "k2", "k3"}
Rooms == {Room, "r2"}
QueuedTotal == Len(toClient["k1"]) + Len(toClient["k2"]) + Len(toClient["k3"])
JoinsOf(ws) == Cardinality({t \in joinHist.by : t[1] = ws})

\* wss.on("connection"): three connections are accepted, no frame handled yet
InitRelay ==
    /\ curve = [c \in Clients |-> pickEcdhCurve(Build)]
    /\ phase = [c \in Clients |-> "init"]
    /\ joined = [c \in Clients |-> FALSE]
    /\ handshakeSent = [c \in Clients |-> FALSE]
    /\ session = [c \in Clients |-> NoSession]
    /\ sendCounter = [c \in Clients |-> 0]
    /\ recvCounter = [c \in Clients |-> 0]
    /\ peerHandshakeReceived = [c \in Clients |-> FALSE]
    /\ pendingMessages = [c \in Clients |-> <<>>]
    /\ promptRunning = [c \in Clients |-> FALSE]
    /\ timers = [c \in Clients |-> 0]
    /\ toClient = [k \in Conns |-> <<>>]
    /\ rooms = <<>>
    /\ sockOpen = [k \in Conns |-> TRUE]
    /\ delivered = [c \in Clients |-> <<>>]
    /\ sent = [c \in Clients |-> <<>>]
    /\ seen = [c \in Clients |-> {}]
    /\ firstSession = [c \in Clients |-> NoSession]
    /\ dropped = {}
    /\ joinHist = NoJoins
    /\ requested = [c \in Clients |-> 0]
    /\ injected = 0

\* the relay handles the frame `raw` of connection `ws`
RelayHandles(ws, raw) ==
    /\ sockOpen[ws]
    /\ QueuedTotal < MaxQueued
    /\ LET net == RelayOnMessage(Net, ws, raw)
       IN  /\ rooms' = net.rooms
           /\ toClient' = net.toClient
           /\ dropped' = net.dropped
           /\ joinHist' = net.joinHist
    /\ UNCHANGED <<clientVars, sockOpen, delivered, sent, seen, firstSession, requested, injected>>

\* if (type === "join"), for a connection that joins as `from`
RelayJoin(ws, room, from) ==
    /\ JoinsOf(ws) < MaxJoins
    /\ RelayHandles(ws, JSONstringify(Envelope("join", room, from, "")))

\* the envelopes connections send in alice's name besides join
SendFrames ==
    {JSONstringify(Envelope(type, room, "alice", to)) :
        type \in {"msg", "handshake"}, room \in Rooms, to \in Clients}

\* a connection reads the frame the relay sent it first
ConnReads(ws) ==
    /\ toClient[ws] # <<>>
    /\ toClient' = [toClient EXCEPT ![ws] = Tail(@)]
    /\ UNCHANGED <<clientVars, rooms, sockOpen, histVars>>

\* wss ws.on("close") for a connection that closes
ConnCloses(ws) ==
    /\ sockOpen[ws]
    /\ sockOpen' = [sockOpen EXCEPT ![ws] = FALSE]
    /\ rooms' = Cleanup(rooms, ws)
    /\ UNCHANGED <<clientVars, toClient, histVars>>

NextRelay ==
    \E ws \in Conns :
        \/ \E room \in Rooms, from \in Clients : RelayJoin(ws, room, from)
        \/ \E raw \in SendFrames : RelayHandles(ws, raw)
        \/ ConnReads(ws)
        \/ ConnCloses(ws)

SpecRelay == InitRelay /\ [][NextRelay]_vars

(***************************************************************************)
(* The client's ws.on("message") handler.  Each branch is an operator from *)
(* the client's state to the handler's effect: the new values of the       *)
(* client's variables, the frames it sent (out), the handleEncryptedMessage*)
(* calls it made (results), the branch it ended in, and whether it ended   *)
(* by throwing.                                                            *)
(***************************************************************************)
Keep(c) ==
    [joined |-> joined[c], handshakeSent |-> handshakeSent[c], session |-> session[c],
     sendCounter |-> sendCounter[c], recvCounter |-> recvCounter[c], peerHandshakeReceived |-> peerHandshakeReceived[c],
     pendingMessages |-> pendingMessages[c], promptRunning |-> promptRunning[c],
     timers |-> timers[c], out |-> <<>>, results |-> <<>>, branch |-> "", threw |-> FALSE]

\* sendHandshake(to)
sendHandshake(c, to) == <<JSONstringify(HandshakeEnvelope(c, to, curve[c]))>>

\* if (type === "joined")
OnJoined(c, msg) ==
    [Keep(c) EXCEPT
        !.joined = TRUE,
        !.out = IF ~handshakeSent[c] THEN sendHandshake(c, peer(c)) ELSE <<>>,
        !.handshakeSent = TRUE,
        !.timers = @ + 1]

\* a request_handshake branch that also marks the handshake as sent
OnRequestHandshakeMarking(c, msg) ==
    [Keep(c) EXCEPT !.out = sendHandshake(c, msg.from), !.handshakeSent = TRUE,
                    !.branch = "request"]

\* if (type === "request_handshake")
OnRequestHandshake(c, msg) ==
    [Keep(c) EXCEPT !.out = sendHandshake(c, msg.from), !.branch = "request"]

\* a drain that empties the queue without opening what it holds
processPendingMessagesDiscarding(c, sess, eff) ==
    [eff EXCEPT !.pendingMessages = <<>>, !.promptRunning = TRUE]

\* processPendingMessages(), run with the session just derived, and then
\* promptLoop(), which is reached only when the drain returns
processPendingMessages(c, sess, eff) ==
    LET results == DrainResults(c, sess, pendingMessages[c])
    IN  [eff EXCEPT
            !.results = results,
            !.recvCounter = @ + CountDelivered(results),
            !.threw = Threw(results),
            !.pendingMessages = IF Threw(results) THEN @ ELSE <<>>,
            !.promptRunning = IF Threw(results) THEN @ ELSE TRUE]

\* const context = `room:${room}|peer1:${id1}|peer2:${id2}|curve:${curve}`
SessionContext(c, from) ==
    LET ids == SortIds(c, from)
    IN  <<Room, ids[1], ids[2], curve[c]>>

\* the handshake branch below its guard against duplicates
FirstHandshake(c, msg) ==
    LET otherCurve == IF "curve" \in msg.has THEN msg.curve ELSE ""
        otherPub == IF "pub" \in msg.has THEN unb64(msg.pub) ELSE <<>>
        replied == [Keep(c) EXCEPT
                       !.out = IF ~handshakeSent[c] THEN sendHandshake(c, msg.from) ELSE <<>>,
                       !.handshakeSent = TRUE]
        sess == deriveSessionKeys(computeSharedSecret(c, otherPub), SessionContext(c, msg.from))
    IN  IF otherCurve # curve[c] THEN [Keep(c) EXCEPT !.branch = "mismatch"]
        ELSE IF ~ValidPub(otherPub, curve[c])
        THEN [replied EXCEPT !.threw = TRUE, !.branch = "badkey"]
        ELSE processPendingMessages(c, sess,
                [replied EXCEPT !.session = <<sess>>, !.peerHandshakeReceived = TRUE,
                                !.branch = "derived"])

\* a handshake branch without the guard against duplicates
OnHandshakeUnguarded(c, msg) == FirstHandshake(c, msg)

\* if (type === "handshake")
OnHandshake(c, msg) ==
    IF peerHandshakeReceived[c] THEN [Keep(c) EXCEPT !.branch = "duplicate"]
    ELSE FirstHandshake(c, msg)

\* a msg branch that counts every envelope it opens, accepted or not
OnMsgCounting(c, msg) ==
    IF ~HasSession(c)
    THEN [Keep(c) EXCEPT !.pendingMessages = Append(@, msg), !.branch = "queued"]
    ELSE LET r == handleEncryptedMessage(c, SessionOf(c), msg)
         IN  [Keep(c) EXCEPT
                 !.results = <<r>>,
                 !.branch = r.outcome,
                 !.recvCounter = @ + 1,
                 !.threw = (r.outcome = "threw")]

\* a msg branch that accepts an envelope only if its counter is the next one
OnMsgInOrder(c, msg) ==
    IF ~HasSession(c)
    THEN [Keep(c) EXCEPT !.pendingMessages = Append(@, msg), !.branch = "queued"]
    ELSE IF CounterOf(msg) # recvCounter[c] + 1
    THEN [Keep(c) EXCEPT !.branch = "replay"]
    ELSE LET r == handleEncryptedMessage(c, SessionOf(c), msg)
         IN  [Keep(c) EXCEPT
                 !.results = <<r>>,
                 !.branch = r.outcome,
                 !.recvCounter = IF r.outcome = "delivered" THEN @ + 1 ELSE @,
                 !.threw = (r.outcome = "threw")]

\* if (type === "msg")
OnMsg(c, msg) ==
    IF ~HasSession(c)
    THEN [Keep(c) EXCEPT !.pendingMessages = Append(@, msg), !.branch = "queued"]
    ELSE LET r == handleEncryptedMessage(c, SessionOf(c), msg)
         IN  [Keep(c) EXCEPT
                 !.results = <<r>>,
                 !.branch = r.outcome,
                 !.recvCounter = IF r.outcome = "delivered" THEN @ + 1 ELSE @,
                 !.threw = (r.outcome = "threw")]

\* ws.on("message", async (raw) => ...)
OnMessage(c, raw) ==
    IF ~raw.json THEN Keep(c)
    ELSE LET msg == raw.msg
         IN  IF msg.to # "" /\ msg.to # c THEN Keep(c)
             ELSE CASE msg.type = "joined" -> OnJoined(c, msg)
                    [] msg.type = "request_handshake" -> OnRequestHandshake(c, msg)
                    [] msg.type = "handshake" -> OnHandshake(c, msg)
                    [] msg.type = "msg" -> OnMsg(c, msg)
                    [] OTHER -> Keep(c)

\* what the history keeps of a handler's run: the branch it ended in, the
\* outcome of every handleEncryptedMessage call, and whether it threw
Branches(eff) ==
    ({eff.branch} \ {""})
    \cup {eff.results[i].outcome : i \in 1..Len(eff.results)}
    \cup (IF eff.threw THEN {"threw"} ELSE {})

\* The handler takes effect.  A handler that throws rejects the promise of the
\* async callback: depending on the Node version the unhandled rejection ends
\* the process (fatal) or only prints a warning.  `queued` tells whether the
\* frame is the head of the client's queue or one the network made up.
Applied(c, eff, fatal, queued) ==
    LET net == Transmit(Net, c, eff.out)
    IN  /\ fatal => eff.threw
        /\ joined' = [joined EXCEPT ![c] = eff.joined]
        /\ handshakeSent' = [handshakeSent EXCEPT ![c] = eff.handshakeSent]
        /\ session' = [session EXCEPT ![c] = eff.session]
        /\ sendCounter' = [sendCounter EXCEPT ![c] = eff.sendCounter]
        /\ recvCounter' = [recvCounter EXCEPT ![c] = eff.recvCounter]
        /\ peerHandshakeReceived' = [peerHandshakeReceived EXCEPT ![c] = eff.peerHandshakeReceived]
        /\ pendingMessages' = [pendingMessages EXCEPT ![c] = eff.pendingMessages]
        /\ promptRunning' = [promptRunning EXCEPT ![c] = eff.promptRunning]
        /\ timers' = [timers EXCEPT ![c] = eff.timers]
        /\ phase' = [phase EXCEPT ![c] = IF fatal THEN "crashed" ELSE @]
        /\ rooms' = net.rooms
        /\ delivered' = [delivered EXCEPT ![c] = @ \o Printed(eff.results)]
        /\ seen' = [seen EXCEPT ![c] = @ \cup Branches(eff)]
        /\ firstSession' = [firstSession EXCEPT ![c] = IF @ = NoSession THEN eff.session ELSE @]
        /\ dropped' = net.dropped
        /\ joinHist' = net.joinHist
        /\ toClient' = IF queued THEN [net.toClient EXCEPT ![c] = Tail(@)] ELSE net.toClient
        /\ UNCHANGED <<curve, sockOpen, sent, requested>>

\* the handler of src/client/index.js runs on the frame `raw`
Handled(c, raw, fatal, queued) == Applied(c, OnMessage(c, raw), fatal, queued)

(***************************************************************************)
(* The client's callbacks, and the network.                                *)
(***************************************************************************)
\* ws.on("open"): the socket opens and the client asks to join the room
Open(c) ==
    /\ phase[c] = "init"
    /\ phase' = [phase EXCEPT ![c] = "open"]
    /\ LET net == Transmit([Net EXCEPT !.sockOpen[c] = TRUE], c,
                            <<JSONstringify(Envelope("join", Room, c, ""))>>)
       IN  /\ sockOpen' = net.sockOpen
           /\ rooms' = net.rooms
           /\ toClient' = net.toClient
           /\ dropped' = net.dropped
           /\ joinHist' = net.joinHist
    /\ UNCHANGED <<curve, joined, handshakeSent, session, sendCounter, recvCounter,
                   peerHandshakeReceived, pendingMessages, promptRunning, timers,
                   delivered, sent, seen, firstSession, requested, injected>>

\* a frame the relay sent reaches the client
Receive(c) ==
    /\ phase[c] = "open"
    /\ toClient[c] # <<>>
    /\ \E fatal \in BOOLEAN : Handled(c, Head(toClient[c]), fatal, TRUE)
    /\ UNCHANGED injected

\* a timer callback that runs and asks the peer for nothing
TimerLapses(c) ==
    /\ phase[c] = "open"
    /\ timers[c] > 0
    /\ timers' = [timers EXCEPT ![c] = @ - 1]
    /\ UNCHANGED <<curve, phase, joined, handshakeSent, session, sendCounter, recvCounter,
                   peerHandshakeReceived, pendingMessages, promptRunning,
                   netVars, histVars>>

\* what the setTimeout callback sends: if (!peerHandshakeReceived) ws.send(...)
RequestOnTimer(c) ==
    IF ~peerHandshakeReceived[c]
    THEN <<JSONstringify(Envelope("request_handshake", Room, c, peer(c)))>>
    ELSE <<>>

\* the setTimeout callback armed by the joined branch
TimerFires(c) ==
    /\ phase[c] = "open"
    /\ timers[c] > 0
    /\ timers' = [timers EXCEPT ![c] = @ - 1]
    /\ LET out == RequestOnTimer(c)
           net == Transmit(Net, c, out)
       IN  /\ toClient' = net.toClient
           /\ rooms' = net.rooms
           /\ dropped' = net.dropped
           /\ joinHist' = net.joinHist
           /\ requested' = [requested EXCEPT ![c] = @ + Len(out)]
    /\ UNCHANGED <<curve, phase, joined, handshakeSent, session, sendCounter, recvCounter,
                   peerHandshakeReceived, pendingMessages, promptRunning,
                   sockOpen, delivered, sent, seen, firstSession, injected>>

\* what the user may type at the prompt
Texts == {<<"h", "i">>, <<"y">>}
IVs == 1..NumIVs
SentTotal == Len(sent["alice"]) + Len(sent["bob"])

\* promptLoop: if (!line) continue
UserEmptyLine(c) ==
    /\ phase[c] = "open"
    /\ promptRunning[c]
    /\ UNCHANGED vars

\* promptLoop: if (line === "/quit") { ws.close(); break; }, and then
\* ws.on("close") ends the process
UserQuit(c) ==
    /\ phase[c] = "open"
    /\ promptRunning[c]
    /\ phase' = [phase EXCEPT ![c] = "exited"]
    /\ UNCHANGED <<curve, joined, handshakeSent, session, sendCounter, recvCounter,
                   peerHandshakeReceived, pendingMessages, promptRunning, timers,
                   netVars, histVars>>

\* the send counter left as it is
SameSendCounter(c) == sendCounter[c]

\* sendCounter++
NextSendCounter(c) == sendCounter[c] + 1

\* promptLoop: a line of text is sealed and transmitted
UserLine(c, line, ivn) ==
    /\ phase[c] = "open"
    /\ promptRunning[c]
    /\ HasSession(c)
    /\ SentTotal < MaxSend
    /\ LET counter == NextSendCounter(c)
           env == MsgEnvelope(c, SessionOf(c), counter, line, ivn)
           net == Transmit(Net, c, <<JSONstringify(env)>>)
       IN  /\ sendCounter' = [sendCounter EXCEPT ![c] = counter]
           /\ toClient' = net.toClient
           /\ rooms' = net.rooms
           /\ dropped' = net.dropped
           /\ joinHist' = net.joinHist
           /\ sent' = [sent EXCEPT ![c] = Append(@, [env |-> env, text |-> line])]
    /\ UNCHANGED <<curve, phase, joined, handshakeSent, session, recvCounter,
                   peerHandshakeReceived, pendingMessages, promptRunning, timers,
                   sockOpen, delivered, seen, firstSession, requested, injected>>

(***************************************************************************)
(* The untrusted network: envelopes that reach a client without an honest  *)
(* client having sent them so (forged, altered, replayed, redirected).     *)
(***************************************************************************)
SentEnvs == UNION {{sent[c][i].env : i \in 1..Len(sent[c])} : c \in Clients}

\* the bytes with bits of their first block flipped
FlipBytes(str) ==
    IF unb64(str) = <<>> THEN str
    ELSE b64(<<Flip(unb64(str)[1])>> \o Tail(unb64(str)))

\* one field of the envelope altered, the others as sent
AlterOneField(e) ==
    {[e EXCEPT !.counter = @ + 1],
     [e EXCEPT !.counter = @ - 1],
     [e EXCEPT !.from = "carol"],
     [e EXCEPT !.from = e.to],
     [e EXCEPT !.iv = FlipBytes(@)],
     [e EXCEPT !.tag = FlipBytes(@)],
     [e EXCEPT !.hmac = FlipBytes(@)],
     [e EXCEPT !.hmac = NoBytes],
     [e EXCEPT !.ct = FlipBytes(@)],
     [e EXCEPT !.ct = b64(unb64(@) \o unb64(@))]} \ {e}

\* iv, ct and tag cut at other places, their concatenation as sent
Resplit(e) ==
    {[e EXCEPT !.iv = NoBytes, !.ct = b64(unb64(e.iv) \o unb64(e.ct))],
     [e EXCEPT !.ct = b64(unb64(e.ct) \o unb64(e.tag)), !.tag = NoBytes],
     [e EXCEPT !.iv = b64(unb64(e.iv) \o unb64(e.ct)), !.ct = NoBytes]} \ {e}

\* the envelope handed to c, who is not the recipient it was sent to
Redirect(e, c) ==
    {e, [e EXCEPT !.to = c], [e EXCEPT !.to = ""], [e EXCEPT !.to = c, !.from = e.to]}

\* payload fields removed
Strip(e) ==
    {[e EXCEPT !.has = @ \ {f}] : f \in {"iv", "ct", "tag", "hmac"}} \cup {[e EXCEPT !.has = {}]}

\* every alteration of a msg envelope the model considers
Alterations(e) == AlterOneField(e) \cup Resplit(e) \cup Strip(e)

\* handshake envelopes that may reach c: any sender, any curve, the sender's
\* public key on that curve as it is, damaged or missing
HandshakeInputs(c) ==
    UNION {{HandshakeEnvelope(f, c, Curves[k]),
            [HandshakeEnvelope(f, c, Curves[k]) EXCEPT !.pub = FlipBytes(@)],
            [HandshakeEnvelope(f, c, Curves[k]) EXCEPT !.has = {"curve"}]} :
           f \in Ids, k \in 1..Len(Curves)}
    \cup {HandshakeEnvelope(peer(c), "", curve[c]),
          [HandshakeEnvelope(peer(c), c, curve[c]) EXCEPT !.has = {}]}

\* msg envelopes that may reach c: those sent to c, as sent or altered, those
\* sent to its peer, redirected, and one in the peer's name without a payload
MsgInputs(c) ==
    UNION {IF e.to = c THEN {e} \cup Alterations(e) ELSE Redirect(e, c) : e \in SentEnvs}
    \cup {Envelope("msg", Room, peer(c), c)}

\* the frames among these that are malformed: not JSON, a msg envelope lacking
\* iv, ct, tag or hmac, a handshake envelope lacking pub
MalformedFrames(c) ==
    {NotJson}
    \cup {JSONstringify(e) : e \in {x \in MsgInputs(c) : ~({"iv", "ct", "tag", "hmac"} \subseteq x.has)}}
    \cup {JSONstringify(h) : h \in {x \in HandshakeInputs(c) : "pub" \notin x.has}}

\* The frames the network makes up for client c: for every path through the
\* handler one frame that takes it.
NetFrames(c) ==
    LET other == IF curve[c] = Curves[1] THEN Curves[2] ELSE Curves[1]
        forged == <<HandshakeEnvelope(peer(c), c, curve[c]),
                    HandshakeEnvelope(peer(c), c, other),
                    HandshakeEnvelope("carol", c, curve[c]),
                    [HandshakeEnvelope(peer(c), c, curve[c]) EXCEPT !.has = {"curve"}],
                    Envelope("msg", Room, peer(c), c),
                    Envelope("joined", Room, c, ""),
                    Envelope("request_handshake", Room, peer(c), c)>>
        last == IF sent[peer(c)] = <<>> THEN <<>>
                ELSE LET e == sent[peer(c)][Len(sent[peer(c)])].env
                     IN  <<e, [e EXCEPT !.hmac = FlipBytes(@)],
                           [e EXCEPT !.iv = NoBytes, !.ct = b64(unb64(e.iv) \o unb64(e.ct))],
                           [e EXCEPT !.has = @ \ {"iv"}]>>
        envs == forged \o last
    IN  {JSONstringify(envs[i]) : i \in 1..Len(envs)}

\* The network hands the client a frame of its own making.  Frames that the
\* handler does nothing with are left out: they change nothing.
Inject(c, raw) ==
    /\ phase[c] = "open"
    /\ injected < MaxInject
    /\ injected' = injected + 1
    /\ \E fatal \in BOOLEAN : Handled(c, raw, fatal, FALSE)
    /\ <<clientVars, netVars, delivered, seen, dropped>>' # <<clientVars, netVars, delivered, seen, dropped>>

(***************************************************************************)
(* The client of src/unnamed/part_001: no retry timer, no request_handshake *)
(* branch, no handshake sent on receipt of one.                            *)
(***************************************************************************)
\* part_001, if (type === "joined")
OnJoined001(c, msg) ==
    [Keep(c) EXCEPT
        !.joined = TRUE,
        !.out = IF ~handshakeSent[c] THEN sendHandshake(c, peer(c)) ELSE <<>>,
        !.handshakeSent = TRUE]

\* part_001, if (type === "handshake")
OnHandshake001(c, msg) ==
    LET otherCurve == IF "curve" \in msg.has THEN msg.curve ELSE ""
        otherPub == IF "pub" \in msg.has THEN unb64(msg.pub) ELSE <<>>
        sess == deriveSessionKeys(computeSharedSecret(c, otherPub), SessionContext(c, msg.from))
    IN  IF peerHandshakeReceived[c] THEN [Keep(c) EXCEPT !.branch = "duplicate"]
        ELSE IF otherCurve # curve[c] THEN [Keep(c) EXCEPT !.branch = "mismatch"]
        ELSE IF ~ValidPub(otherPub, curve[c])
        THEN [Keep(c) EXCEPT !.threw = TRUE, !.branch = "badkey"]
        ELSE processPendingMessages(c, sess,
                [Keep(c) EXCEPT !.session = <<sess>>, !.peerHandshakeReceived = TRUE,
                                !.branch = "derived"])

\* part_001, ws.on("message", async raw => ...)
OnMessage001(c, raw) ==
    IF ~raw.json THEN Keep(c)
    ELSE LET msg == raw.msg
         IN  IF msg.to # "" /\ msg.to # c THEN Keep(c)
             ELSE CASE msg.type = "joined" -> OnJoined001(c, msg)
                    [] msg.type = "handshake" -> OnHandshake001(c, msg)
                    [] msg.type = "msg" -> OnMsg(c, msg)
                    [] OTHER -> Keep(c)

\* part_001: a frame the relay sent reaches the client
Receive001(c) ==
    /\ phase[c] = "open"
    /\ toClient[c] # <<>>
    /\ \E fatal \in BOOLEAN : Applied(c, OnMessage001(c, Head(toClient[c])), fatal, TRUE)
    /\ UNCHANGED injected

(***************************************************************************)
(* Specifications.                                                         *)
(***************************************************************************)
\* the callbacks of a client that stays connected
Callback(c) ==
    \/ Open(c)
    \/ Receive(c)
    \/ TimerFires(c)
    \/ UserEmptyLine(c)
    \/ \E line \in Texts, ivn \in IVs : UserLine(c, line, ivn)

\* honest clients and an honest relay, a network that delivers what was sent,
\* and users who do not quit
NextHonest == \E c \in Clients : Callback(c)

SpecHonest == Init /\ [][NextHonest]_vars

\* the same, where every socket opens, every timer that is armed fires and
\* every frame the relay sent is delivered
SpecLive ==
    /\ SpecHonest
    /\ \A c \in Clients : WF_vars(Open(c)) /\ WF_vars(Receive(c)) /\ WF_vars(TimerFires(c))

\* the callbacks of a client of part_001 that stays connected
Callback001(c) ==
    \/ Open(c)
    \/ Receive001(c)
    \/ UserEmptyLine(c)
    \/ \E line \in Texts, ivn \in IVs : UserLine(c, line, ivn)

\* two clients of part_001 and an honest relay, where every socket opens and
\* every frame the relay sent is delivered
Next001 == \E c \in Clients : Callback001(c)

Spec001 ==
    /\ Init /\ [][Next001]_vars
    /\ \A c \in Clients : WF_vars(Open(c)) /\ WF_vars(Receive001(c))

\* honest clients and an honest relay, and a network that does as it likes
Next ==
    \/ \E c \in Clients : Callback(c) \/ RelayOnClose(c)
    \/ \E c \in Clients : \E raw \in NetFrames(c) : Inject(c, raw)

Spec == Init /\ [][Next]_vars

(***************************************************************************)
(* Properties.                                                             *)
(***************************************************************************)
Established == {c \in Clients : HasSession(c)}

\* C1 (SpecHonest): whenever both clients hold session keys, the two hold the
\* same encryption key and the same MAC key, whichever handshake was
\* delivered first and however often handshakes were resent.
KeysAgree ==
    Established = Clients =>
        /\ SessionOf("alice").kEnc = SessionOf("bob").kEnc
        /\ SessionOf("alice").kMac = SessionOf("bob").kMac

\* both hold keys, alice derived hers from a handshake that was sent again on
\* her request, and she has seen that handshake a second time
KeysAgreeAfterResend ==
    /\ Established = Clients
    /\ requested["alice"] > 0
    /\ "duplicate" \in seen["alice"]

\* C2 (SpecLive): with an honest relay, both clients on the same curve and
\* neither disconnecting, both eventually hold session keys, also when what
\* the first joiner sent before its peer joined was lost.
BothEstablish == <>(Established = Clients)

\* bob joined first: the relay had no target for his handshake nor for his
\* request_handshake, and both hold keys all the same
EstablishedAfterLoss ==
    /\ Established = Clients
    /\ {<<"bob", "handshake">>, <<"bob", "request_handshake">>} \subseteq dropped

\* the envelopes of the handleEncryptedMessage calls, in the order made
EnvsOf(results) == [i \in 1..Len(results) |-> results[i].env]

\* C3 (Spec): a msg envelope received without session keys is appended to the
\* pending queue; the handshake that yields the keys processes every queued
\* envelope once, in arrival order, and leaves the queue empty.
PendingDrainedInOrder ==
    \A c \in Clients :
        /\ HasSession(c) => pendingMessages[c] = <<>>
        /\ ~HasSession(c) =>
              /\ \A e \in MsgInputs(c) :
                    e.to \in {"", c} =>
                        OnMessage(c, JSONstringify(e)).pendingMessages = Append(pendingMessages[c], e)
              /\ \A h \in HandshakeInputs(c) :
                    LET eff == OnMessage(c, JSONstringify(h))
                    IN  eff.session # NoSession =>
                            /\ EnvsOf(eff.results) = pendingMessages[c]
                            /\ eff.pendingMessages = <<>>

\* C4 (Spec): a client that has received a handshake declaring another curve
\* than its own never holds session keys afterwards.
AbortedIsTerminal ==
    \A c \in Clients : "mismatch" \in seen[c] => ~HasSession(c)

\* the fields of the client a handshake received again must leave alone
Untouched(c, eff) ==
    /\ eff.session = session[c]
    /\ eff.sendCounter = sendCounter[c]
    /\ eff.recvCounter = recvCounter[c]
    /\ eff.pendingMessages = pendingMessages[c]
    /\ eff.peerHandshakeReceived = peerHandshakeReceived[c]
    /\ eff.out = <<>>
    /\ ~eff.threw

\* C5 (Spec): for a client that holds session keys, any further handshake
\* envelope (any sender, curve, public key) changes neither keys nor counters
\* nor the pending queue and sends nothing; the keys a client holds are the
\* keys it derived first.
DuplicateHandshakeIsNoOp ==
    \A c \in Clients :
        HasSession(c) =>
            /\ session[c] = firstSession[c]
            /\ \A h \in HandshakeInputs(c) :
                  LET eff == OnMessage(c, JSONstringify(h))
                  IN  Untouched(c, eff) /\ eff.results = <<>>

\* a client holding keys has been handed another handshake
DuplicateHandshakeSeen ==
    \E c \in Clients : HasSession(c) /\ "duplicate" \in seen[c]

\* C6 (Spec): handling a malformed frame throws nothing and leaves keys and
\* counters alone; no handler run has thrown and no client has been ended by
\* one.
MalformedIsDropped ==
    \A c \in Clients :
        /\ phase[c] # "crashed"
        /\ "threw" \notin seen[c]
        /\ phase[c] = "open" =>
              \A raw \in MalformedFrames(c) :
                  LET eff == OnMessage(c, raw)
                  IN  /\ ~eff.threw
                      /\ eff.session = session[c]
                      /\ eff.sendCounter = sendCounter[c]
                      /\ eff.recvCounter = recvCounter[c]

\* does the handler open the envelope, and with which outcome
Outcome(eff) == IF eff.results = <<>> THEN "unopened" ELSE eff.results[1].outcome

\* C7 (Spec): for a client holding keys, a msg envelope whose HMAC check or
\* decryption fails is reported, delivers no plaintext, leaves keys, counters
\* and the queue alone and sends nothing; a client that has seen such a
\* failure still accepts what its peer sealed under the keys they share.
FailedOpenLeavesSession ==
    \A c \in Clients :
        HasSession(c) =>
            /\ \A e \in MsgInputs(c) :
                  LET eff == OnMessage(c, JSONstringify(e))
                  IN  Outcome(eff) \in {"hmac_fail", "decrypt_fail"} =>
                          /\ Untouched(c, eff)
                          /\ Printed(eff.results) = <<>>
                          /\ eff.branch = Outcome(eff)
            /\ (seen[c] \cap {"hmac_fail", "decrypt_fail"} # {} /\ session[peer(c)] = session[c]) =>
                  \A i \in 1..Len(sent[peer(c)]) :
                      Outcome(OnMessage(c, JSONstringify(sent[peer(c)][i].env))) = "delivered"

\* a client has rejected an envelope on its HMAC and, holding the keys of its
\* peer, has been delivered a message
RejectedAndDelivered ==
    \E c \in Clients :
        /\ "hmac_fail" \in seen[c]
        /\ session[peer(c)] = session[c]
        /\ delivered[c] # <<>>

\* what the network can make of the envelope e for client c: altered, if e was
\* sent to c, and else redirected to c
Tampered(e, c) == IF e.to = c THEN AlterOneField(e) \cup Resplit(e) ELSE Redirect(e, c)

Plaintexts == Texts \cup {<<>>}

\* C9 (SpecHonest): what a client is delivered is, message by message, what
\* its peer sent, with the counter it was sent under; the first message sent
\* carries counter 1; and under the keys the two share every plaintext, the
\* empty string too, sealed by one under any counter is opened by the other
\* to that plaintext.
SealedIsOpened ==
    \A a \in Clients :
        LET b == peer(a)
        IN  /\ Len(delivered[b]) <= Len(sent[a])
            /\ \A i \in 1..Len(delivered[b]) :
                  delivered[b][i] = [from |-> a, counter |-> sent[a][i].env.counter,
                                     text |-> sent[a][i].text]
            /\ sent[a] # <<>> => sent[a][1].env.counter = 1
            /\ Established = Clients =>
                  \A pt \in Plaintexts, n \in 1..(MaxSend + 1), ivn \in IVs :
                      LET env == MsgEnvelope(a, SessionOf(a), n, pt, ivn)
                          eff == OnMessage(b, JSONstringify(env))
                      IN  /\ Outcome(eff) = "delivered"
                          /\ Printed(eff.results) = <<[from |-> a, counter |-> n, text |-> pt]>>

\* bob has been delivered the first message alice sent, as she typed it
FirstMessageDelivered ==
    /\ delivered["bob"] # <<>>
    /\ delivered["bob"][1] = [from |-> "alice", counter |-> 1, text |-> sent["alice"][1].text]

\* C10 (Spec): a client that has transmitted msg envelopes holds session keys
\* and sealed them under these; the n-th it transmitted carries counter n;
\* the send counter is the number transmitted; no inbound frame changes it.
SendCounterCounts ==
    \A c \in Clients :
        /\ sendCounter[c] = Len(sent[c])
        /\ \A i \in 1..Len(sent[c]) :
              /\ HasSession(c)
              /\ sent[c][i].env.counter = i
              /\ \E ivn \in IVs : sent[c][i].env = MsgEnvelope(c, SessionOf(c), i, sent[c][i].text, ivn)
        /\ \A raw \in NetFrames(c) \cup {NotJson} \cup {toClient[c][i] : i \in 1..Len(toClient[c])} :
              OnMessage(c, raw).sendCounter = sendCounter[c]

\* a client has transmitted two msg envelopes, the second under counter 2,
\* and has been handed a handshake since it holds keys
SentTwoAndReceived ==
    \E c \in Clients :
        /\ Len(sent[c]) >= 2
        /\ sent[c][2].env.counter = 2
        /\ "duplicate" \in seen[c]

\* the envelopes other than join a connection may send the relay: any type, a
\* room with or without registrations, any sender, any recipient
RelayInputs ==
    {Envelope(type, room, from, to) :
        type \in {"handshake", "request_handshake", "msg"}, room \in Rooms,
        from \in Clients, to \in Ids}

\* the connection registered for identity `to` in `room`, if there is one
Registered(room, to) ==
    IF room \in DOMAIN rooms /\ to \in DOMAIN rooms[room] THEN {rooms[room][to]} ELSE {}

\* the reply of the relay that has no target
ErrorReply == JSONstringify(Envelope("error", "", "", ""))

\* C11 (SpecRelay): the relay hands an envelope to the connection registered
\* for `to` in the envelope's room and to no other; where none is registered
\* it hands the envelope to nobody and sends the sender an error reply.
ForwardsToTargetOrReplies ==
    \A ws \in {k \in DOMAIN sockOpen : sockOpen[k]} : \A e \in RelayInputs :
        LET net == RelayOnMessage(Net, ws, JSONstringify(e))
        IN  /\ net.rooms = rooms
            /\ \A target \in Registered(e.room, e.to) :
                  net.toClient = [toClient EXCEPT ![target] = Append(@, JSONstringify(e))]
            /\ Registered(e.room, e.to) = {} =>
                  net.toClient = [toClient EXCEPT ![ws] = Append(@, ErrorReply)]

LastJoinHolds ==
    \A t \in joinHist.last :
        sockOpen[t[3]] =>
            /\ Registered(t[1], t[2]) = {t[3]}
            /\ \A ws \in {k \in DOMAIN sockOpen : sockOpen[k]} :
                  \A e \in {x \in RelayInputs : x.room = t[1] /\ x.to = t[2]} :
                      RelayOnMessage(Net, ws, JSONstringify(e)).toClient
                          = [toClient EXCEPT ![t[3]] = Append(@, JSONstringify(e))]

\* X joined R on one connection and then on another; the first has closed,
\* the second is registered for X in R
RejoinedAndFirstClosed ==
    \E b \in joinHist.by, t \in joinHist.last :
        /\ b[2] = t[1] /\ b[3] = t[2] /\ b[1] # t[3]
        /\ ~sockOpen[b[1]]
        /\ sockOpen[t[3]]
        /\ Registered(t[1], t[2]) = {t[3]}

\* the keys client c derives from the handshake of its configured peer
PeerSession(c) ==
    deriveSessionKeys(computeSharedSecret(c, publicKey(peer(c), curve[c])),
                      SessionContext(c, peer(c)))

\* C13 (Spec): the keys a client holds are those derived from the handshake
\* of its configured peer; a handshake envelope whose from is another
\* identity gives a client without keys no keys and does not mark the
\* peer's handshake as received.
KeysOnlyFromPeer ==
    \A c \in Clients :
        /\ HasSession(c) => SessionOf(c) = PeerSession(c)
        /\ (phase[c] = "open" /\ ~HasSession(c)) =>
              \A h \in {x \in HandshakeInputs(c) : x.from # peer(c)} :
                  LET eff == OnMessage(c, JSONstringify(h))
                  IN  /\ eff.session = session[c]
                      /\ eff.peerHandshakeReceived = peerHandshakeReceived[c]

\* C14 (Spec001): two clients of part_001, an honest relay, neither client
\* disconnecting: whichever joins first, eventually each of the two holds
\* session keys.
BothEstablish001 == <>(\A c \in Clients : HasSession(c))

\* is the hmac of envelope e the HMAC under c's MAC key of
\* aad || iv || ciphertext || authTag, as c rebuilds them
HmacVerifies(c, e) ==
    unb64(e.hmac) = hmacSha256(SessionOf(c).kMac,
                        buildAad(Room, e.from, c, CounterOf(e))
                            \o unb64(e.iv) \o unb64(e.ct) \o unb64(e.tag))

\* C15 (Spec): for a client holding keys and any msg envelope handed to it,
\* decryptAesGcm is invoked only if the received hmac equals the recomputed
\* one; on an envelope whose hmac differs, in value or in length, it is not
\* invoked, on arrival or from the pending queue.
DecryptsOnlyAuthenticated ==
    \A c \in Clients :
        HasSession(c) =>
            \A e \in {x \in MsgInputs(c) : {"iv", "ct", "tag", "hmac"} \subseteq x.has} :
                LET r == handleEncryptedMessage(c, SessionOf(c), e)
                    d == DrainResults(c, SessionOf(c), <<e>>)
                IN  /\ r.decrypted <=> HmacVerifies(c, e)
                    /\ r.outcome = "hmac_fail" <=> ~HmacVerifies(c, e)
                    /\ d = <<r>>
                    /\ OnMessage(c, JSONstringify(e)).results \in {<<>>, <<r>>}

\* a client holding keys has rejected an envelope on its HMAC, and an
\* envelope whose hmac has another length than the recomputed one is not
\* decrypted
ShortHmacNotDecrypted ==
    \E c \in Clients :
        /\ HasSession(c)
        /\ "hmac_fail" \in seen[c]
        /\ \E e \in MsgInputs(c) :
              /\ "hmac" \in e.has
              /\ Len(unb64(e.hmac)) # 1
              /\ ~handleEncryptedMessage(c, SessionOf(c), e).decrypted

\* C16 (Spec): a client sends at most one request_handshake in its run, and
\* a timer that is armed when the peer's handshake has been accepted, or
\* when a handshake was refused for its curve, sends nothing when it fires.
SingleNudge ==
    \A c \in Clients :
        /\ requested[c] <= 1
        /\ (phase[c] = "open" /\ timers[c] > 0
                /\ (peerHandshakeReceived[c] \/ "mismatch" \in seen[c]))
             => RequestOnTimer(c) = <<>>

\* the request_handshake envelopes that may reach c: from any identity,
\* addressed to c or to nobody
RequestInputs(c) ==
    {Envelope("request_handshake", Room, f, to) : f \in Ids, to \in {c, ""}}

\* C17 (Spec): in every state in which a connected client is handed a
\* request_handshake envelope, it sends one handshake envelope with its own
\* curve and public key to the requester and changes nothing: keys, the
\* peer-handshake-received flag, both counters, the pending queue and every
\* other variable of the client are as before.
RequestResendsHandshake ==
    \A c \in Clients :
        phase[c] = "open" =>
            \A e \in RequestInputs(c) :
                LET eff == OnMessage(c, JSONstringify(e))
                    h == HandshakeEnvelope(c, e.from, curve[c])
                IN  /\ eff = [Keep(c) EXCEPT !.out = <<JSONstringify(h)>>, !.branch = "request"]
                    /\ h.type = "handshake" /\ h.to = e.from /\ h.from = c
                    /\ h.curve = curve[c]
                    /\ unb64(h.pub) = publicKey(c, curve[c])

\* a client that holds keys has answered a request_handshake, and the keys
\* it holds are those it derived first
RequestAnsweredWithKeys ==
    \E c \in Clients :
        /\ "request" \in seen[c]
        /\ HasSession(c)
        /\ session[c] = firstSession[c]
        /\ requested[peer(c)] > 0

\* C18 (Spec): a client holding the keys of its peer accepts every envelope
\* its peer sealed, whatever was accepted before (the same envelope, or one
\* with a higher counter): the plaintext is delivered and the receive counter
\* goes up by one; the receive counter is the number of plaintexts delivered.
CountersNotChecked ==
    \A c \in Clients :
        /\ recvCounter[c] = Len(delivered[c])
        /\ (HasSession(c) /\ session[peer(c)] = session[c]) =>
              \A i \in 1..Len(sent[peer(c)]) :
                  LET e == sent[peer(c)][i].env
                      eff == OnMessage(c, JSONstringify(e))
                  IN  /\ Outcome(eff) = "delivered"
                      /\ eff.recvCounter = recvCounter[c] + 1
                      /\ Printed(eff.results)
                            = <<[from |-> peer(c), counter |-> i, text |-> sent[peer(c)][i].text]>>

\* a client has been delivered an envelope whose counter is not above the
\* counter of one delivered before it, and has counted both
ReplayDelivered ==
    \E c \in Clients : \E i, j \in 1..Len(delivered[c]) :
        /\ i < j
        /\ delivered[c][j].counter <= delivered[c][i].counter
        /\ recvCounter[c] = Len(delivered[c])
        /\ recvCounter[c] >= 2

\* what the application of c has been handed, as entries of what its peer sent
SentAsDelivered(c) ==
    [i \in 1..Len(sent[c]) |-> [from |-> c, counter |-> i, text |-> sent[c][i].text]]

\* C19 (SpecLive): with an honest relay and both clients staying connected,
\* what a client has been delivered is always a prefix of what its peer
\* sent (exact plaintext, once each, in the sender's order), and every
\* envelope a client sent is eventually delivered to its peer, whether the
\* peer opened it on arrival or queued it and derived keys later.
EverySentIsDelivered ==
    /\ [](\A c \in Clients :
             /\ Len(delivered[peer(c)]) <= Len(sent[c])
             /\ delivered[peer(c)] = SubSeq(SentAsDelivered(c), 1, Len(delivered[peer(c)])))
    /\ \A c \in Clients : \A i \in 1..MaxSend :
          (Len(sent[c]) >= i) ~> (Len(delivered[peer(c)]) >= i)

\* a client queued an envelope before it held keys and has been delivered
\* everything its peer sent, two messages, in order
QueuedThenDelivered ==
    \E c \in Clients :
        /\ "queued" \in seen[c]
        /\ Len(sent[peer(c)]) = 2
        /\ delivered[c] = SentAsDelivered(peer(c))
        /\ pendingMessages[c] = <<>>

=============================================================================
